---- MODULE Spec2Model ----
(***************************************************************************)
(* S3Loader.load and UnstructuredWebLoader.load / _partition as a state    *)
(* machine.  Every call is a process whose steps are the code's await      *)
(* points; the object store and the partitioning service are the           *)
(* environment, whose answers the settle actions draw from small sets.     *)
(* Strings are TLA+ strings, so the error messages are the strings the     *)
(* template literals of the code build.                                    *)
(***************************************************************************)
EXTENDS Integers, Sequences, FiniteSets, TLC

\* s3Loader, webLoader: the fields of the two loader objects; webOptions: the
\* options object webLoader was constructed from; calls: the frames of the
\* load() calls made so far
VARIABLES s3Loader, webLoader, webOptions, calls

vars == <<s3Loader, webLoader, webOptions, calls>>

(* ----------------------------- bounds --------------------------------- *)

\* number of load() invocations in flight at once
NCalls == 2
\* longest ocrLanguages list
MaxLangs == 2
\* longest array the partitioning service returns
MaxElems == 2

(* ------------------------- JavaScript values -------------------------- *)

Undefined == [t |-> "undefined"]
Null == [t |-> "null"]
Str(s) == [t |-> "string", s |-> s]
Num(n) == [t |-> "number", n |-> n]
Bool(b) == [t |-> "boolean", b |-> b]
Obj(o) == [t |-> "object", o |-> o]
Arr(a) == [t |-> "array", a |-> a]

\* a ?? b
Coalesce(a, b) == IF a.t \in {"undefined", "null"} THEN b ELSE a

\* if (v): the truthiness of a value
Truthy(v) ==
  CASE v.t = "string" -> v.s # ""
    [] v.t = "number" -> v.n # 0
    [] v.t = "boolean" -> v.b
    [] v.t \in {"object", "array"} -> TRUE
    [] OTHER -> FALSE

\* o.k for a property k of an object record; undefined when o has no k
Get(o, k) == IF k \in DOMAIN o THEN o[k] ELSE Undefined

\* typeof v === "string"
IsString(v) == v.t = "string"

(* ------------------------------ strings ------------------------------- *)

StartsWith(s, p) == Len(s) >= Len(p) /\ SubSeq(s, 1, Len(p)) = p

EndsWith(s, p) == Len(s) >= Len(p) /\ SubSeq(s, Len(s) - Len(p) + 1, Len(s)) = p

Contains(s, sub) ==
  \E i \in 0..(Len(s) - Len(sub)) : SubSeq(s, i + 1, i + Len(sub)) = sub

Digit(d) == SubSeq("0123456789", d + 1, d + 1)

RECURSIVE NumToStr(_)
\* `${n}` for a non-negative integer n
NumToStr(n) == IF n < 10 THEN Digit(n) ELSE NumToStr(n \div 10) \o Digit(n % 10)

\* `${v}` for a value that JSON.parse can return and Array.isArray rejects
TemplateString(v) ==
  CASE v.t = "null" -> "null"
    [] v.t = "undefined" -> "undefined"
    [] v.t = "string" -> v.s
    [] v.t = "number" -> NumToStr(v.n)
    [] v.t = "boolean" -> (IF v.b THEN "true" ELSE "false")
    [] v.t = "object" -> "[object Object]"

RECURSIVE SplitFrom(_, _, _)
\* the segments of s from position i on, the current one starting at from
SplitFrom(s, i, from) ==
  IF i > Len(s) THEN <<SubSeq(s, from, Len(s))>>
  ELSE IF SubSeq(s, i, i) = "/"
       THEN <<SubSeq(s, from, i - 1)>> \o SplitFrom(s, i + 1, i + 1)
       ELSE SplitFrom(s, i + 1, from)

\* s.split("/")
Split(s) == SplitFrom(s, 1, 1)

\* a.pop() of a non-empty array
Pop(a) == a[Len(a)]

(* ------------------------ UnstructuredWebLoader ----------------------- *)

DefaultApiUrl == "https://api.unstructured.io/general/v0/general"

DefaultStrategy == "hi_res"

\* options = {}: every option unset
NoOptions ==
  [apiKey |-> Undefined, apiUrl |-> Undefined, strategy |-> Undefined,
   encoding |-> Undefined, ocrLanguages |-> Undefined, coordinates |-> Undefined,
   pdfInferTableStructure |-> Undefined, xmlKeepTags |-> Undefined]

\* new UnstructuredWebLoader(filePath, buffer, options): the fields it sets
UnstructuredWebLoader(filePath, buffer, options) ==
  [filePath |-> filePath,
   buffer |-> buffer,
   apiKey |-> options.apiKey,
   apiUrl |-> Coalesce(options.apiUrl, Str(DefaultApiUrl)),
   strategy |-> Coalesce(options.strategy, Str(DefaultStrategy)),
   encoding |-> options.encoding,
   ocrLanguages |-> Coalesce(options.ocrLanguages, Arr(<<>>)),
   coordinates |-> options.coordinates,
   pdfInferTableStructure |-> options.pdfInferTableStructure,
   xmlKeepTags |-> options.xmlKeepTags]

\* formData.append(name, value)
Field(name, value) == [name |-> name, value |-> value]

\* formData.append("files", new Blob([buffer]), fileName)
FileField(buffer, fileName) == [name |-> "files", blob |-> buffer, filename |-> fileName]

\* one ocr_languages field per language, in the order of the list
LanguageFields(langs) == [k \in 1..Len(langs) |-> Field("ocr_languages", langs[k])]

FlagFieldSendsFalse(name, flag) ==
  IF flag.t = "boolean" THEN <<Field(name, IF flag.b THEN "true" ELSE "false")>> ELSE <<>>

\* the field a flag adds: "true" when the flag === true, nothing otherwise
FlagField(name, flag) ==
  IF flag = Bool(TRUE) THEN <<Field(name, "true")>> ELSE <<>>

\* the form data _partition builds, in append order
FormData(this) ==
  <<FileField(this.buffer, Pop(Split(this.filePath)))>>
  \o <<Field("strategy", this.strategy.s)>>
  \o LanguageFields(this.ocrLanguages.a)
  \o (IF Truthy(this.encoding) THEN <<Field("encoding", this.encoding.s)>> ELSE <<>>)
  \o FlagField("coordinates", this.coordinates)
  \o FlagField("pdf_infer_table_structure", this.pdfInferTableStructure)
  \o FlagField("xml_keep_tags", this.xmlKeepTags)

\* the headers _partition sends
Headers(this) == "UNSTRUCTURED-API-KEY" :> Coalesce(this.apiKey, Str("")).s

\* the arguments of the fetch call of _partition
Request(this) ==
  [url |-> this.apiUrl.s, method |-> "POST", body |-> FormData(this),
   headers |-> Headers(this)]

(* ------------------------------- errors ------------------------------- *)

\* an error object: its constructor's name and its message
Error(name, message) == [name |-> name, message |-> message]

\* the states of the promise a call returns
Pending == [status |-> "pending"]
Fulfilled(value) == [status |-> "fulfilled", value |-> value]
Rejected(reason) == [status |-> "rejected", reason |-> reason]

PartitionErrorWithoutBody(filePath, status, text) ==
  Error("Error", "Failed to partition file " \o filePath \o " with error "
                 \o NumToStr(status))

\* the error _partition throws for a response that is not ok
PartitionError(filePath, status, text) ==
  Error("Error", "Failed to partition file " \o filePath \o " with error "
                 \o NumToStr(status) \o " and message " \o text)

\* the error _partition throws for a body that is no array
ShapeError(elements) ==
  Error("Error", "Expected partitioning request to return an array, but got "
                 \o TemplateString(elements))

DownloadErrorWithoutBucket(key, bucket, e) ==
  Error("Error", "Failed to download file " \o key \o ": " \o e.message)

\* the error the first catch of S3Loader.load throws
DownloadError(key, bucket, e) ==
  Error("Error", "Failed to download file " \o key \o " from S3 bucket " \o bucket
                 \o ": " \o e.message)

LoadErrorAsDownload(filePath) ==
  Error("Error", "Failed to download file " \o filePath \o " using unstructured loader.")

\* the error the second catch of S3Loader.load throws
LoadError(filePath) ==
  Error("Error", "Failed to load file " \o filePath \o " using unstructured loader.")

(* ---------------------- the partitioning response --------------------- *)

\* response.ok
Ok(status) == status \in 200..299

\* the property names of the documents drawn here, in the order the service
\* writes them
Keys == <<"type", "text", "metadata", "page", "category", "foo">>

RECURSIVE Join(_)
\* the strings of a list, separated by commas
Join(strings) ==
  IF strings = <<>> THEN ""
  ELSE IF Len(strings) = 1 THEN strings[1]
  ELSE strings[1] \o "," \o Join(Tail(strings))

RECURSIVE JsonText(_)
\* the JSON text of a document
JsonText(v) ==
  CASE v.t = "null" -> "null"
    [] v.t = "number" -> NumToStr(v.n)
    [] v.t = "boolean" -> (IF v.b THEN "true" ELSE "false")
    [] v.t = "string" -> "\"" \o v.s \o "\""
    [] v.t = "array" -> "[" \o Join([k \in 1..Len(v.a) |-> JsonText(v.a[k])]) \o "]"
    [] v.t = "object" ->
         LET keys == SelectSeq(Keys, LAMBDA k : k \in DOMAIN v.o)
         IN "{" \o Join([k \in 1..Len(keys) |->
                           "\"" \o keys[k] \o "\":" \o JsonText(v.o[keys[k]])])
                \o "}"

\* response.text(): the body as the service wrote it
Text(body) == IF "json" \in DOMAIN body THEN JsonText(body.json) ELSE body.text

\* response.json(): the parsed document, or the SyntaxError of a body that is
\* no JSON text (the message is the engine's; two stand for them all)
Json(body) ==
  IF "json" \in DOMAIN body THEN Fulfilled(body.json)
  ELSE Rejected(Error("SyntaxError",
                      IF body.text = "" THEN "Unexpected end of JSON input"
                      ELSE "Unexpected token in JSON"))

\* el[k] for k one of text, type, metadata; reading a property of null or
\* undefined throws, a primitive or an array has no such property
Prop(el, k) == IF el.t = "object" THEN Get(el.o, k) ELSE Undefined

\* whether el.text throws a TypeError
ReadThrows(el) == el.t \in {"null", "undefined"}

PropertyTypeError(el) ==
  Error("TypeError", "Cannot read properties of " \o el.t \o " (reading 'text')")

\* elements.filter((el) => typeof el.text === "string")
Filter(elements) ==
  IF \E k \in 1..Len(elements) : ReadThrows(elements[k])
  THEN Rejected(PropertyTypeError(
         elements[CHOOSE k \in 1..Len(elements) :
                    /\ ReadThrows(elements[k])
                    /\ \A j \in 1..(k - 1) : ~ReadThrows(elements[j])]))
  ELSE Fulfilled(SelectSeq(elements, LAMBDA el : IsString(Prop(el, "text"))))

ElementsUnchecked(parsed) ==
  IF parsed.status = "rejected" THEN parsed
  ELSE IF parsed.value.t # "array" THEN Fulfilled(<<>>)
  ELSE Filter(parsed.value.a)

\* the rest of _partition once the body has been parsed
Elements(parsed) ==
  IF parsed.status = "rejected" THEN parsed
  ELSE IF parsed.value.t # "array" THEN Rejected(ShapeError(parsed.value))
  ELSE Filter(parsed.value.a)

\* the own enumerable properties {...metadata} copies
Spread(metadata) == IF metadata.t = "object" THEN metadata.o ELSE <<>>

MetadataCategoryFirst(metadata, type) ==
  [k \in DOMAIN Spread(metadata) \cup {"category"} |->
     IF k \in DOMAIN Spread(metadata) THEN Spread(metadata)[k] ELSE type]

\* { ...metadata, category: type }
Metadata(metadata, type) ==
  [k \in DOMAIN Spread(metadata) \cup {"category"} |->
     IF k = "category" THEN type ELSE Spread(metadata)[k]]

\* new Document({ pageContent, metadata })
Document(element) ==
  [pageContent |-> Prop(element, "text").s,
   metadata |-> Metadata(Prop(element, "metadata"), Prop(element, "type"))]

RECURSIVE Documents(_)
\* the loop of load over the elements _partition returned
Documents(elements) ==
  IF elements = <<>> THEN <<>>
  ELSE (IF IsString(Prop(Head(elements), "text"))
        THEN <<Document(Head(elements))>> ELSE <<>>)
       \o Documents(Tail(elements))

\* UnstructuredWebLoader.load after the await of _partition
Load(partitioned) ==
  IF partitioned.status = "rejected" THEN partitioned
  ELSE Fulfilled(Documents(partitioned.value))

(* ------------------------------ S3Loader ------------------------------ *)

\* new S3Loader({ bucket, key, unstructuredAPIURL, unstructuredAPIKey,
\* UnstructuredLoader }): the fields it sets.  UnstructuredLoader names the
\* class the caller injects: the default one, or a stand-in whose
\* constructor throws
S3Loader(bucket, key, unstructuredAPIURL, unstructuredAPIKey, UnstructuredLoader) ==
  [bucket |-> bucket, key |-> key, unstructuredAPIURL |-> unstructuredAPIURL,
   unstructuredAPIKey |-> unstructuredAPIKey, UnstructuredLoader |-> UnstructuredLoader]

\* the options S3Loader.load gives the partitioning loader
S3Options(this) ==
  [NoOptions EXCEPT !.apiUrl = Str(this.unstructuredAPIURL),
                    !.apiKey = Str(this.unstructuredAPIKey)]

\* new this._UnstructuredLoader(filePath, objectData, options)
Construct(class, filePath, objectData, options) ==
  IF class = "UnstructuredWebLoader"
  THEN Fulfilled(UnstructuredWebLoader(filePath, objectData, options))
  ELSE Rejected(Error("Error", "stand-in constructor"))

\* response.Body.transformToByteArray() once the stream has ended: all the
\* bytes of the object
ByteArray(stream) == stream.object

\* the TypeError of response.Body.transformToByteArray when there is no Body
NoBodyError ==
  Error("TypeError", "Cannot read properties of undefined (reading 'transformToByteArray')")

(* ------------------------------- a call ------------------------------- *)

\* the frame of one load() call: where it waits, its locals, the requests it
\* has issued, the answers it has received and the promise it returned.  An
\* unset local is <<>>, a set one <<value>>
NewCall ==
  [pc |-> "idle", target |-> "none", filePath |-> "", sends |-> 0,
   s3Response |-> <<>>, objectData |-> <<>>, loader |-> <<>>,
   posts |-> <<>>, response |-> <<>>, answers |-> <<>>,
   result |-> Pending]

\* s3Client.send(getObjectCommand)
IssueGet(sends) == sends + 1

PostTwice(posts, request) == posts \o <<request, request>>

\* fetch(this.apiUrl, { method, body, headers })
IssuePost(posts, request) == Append(posts, request)

\* the call ends with the promise settled
Settle(c, promise) == [c EXCEPT !.pc = "done", !.result = promise]

\* S3Loader.load up to the await of send
S3Start(c, this) ==
  [c EXCEPT !.pc = "send", !.target = "s3", !.filePath = this.key,
            !.sends = IssueGet(@)]

\* the call has received one more answer
Answered(c, answer) == [c EXCEPT !.answers = Append(@, answer)]

\* the first catch block of S3Loader.load
RetrievalFailed(c, this, e) ==
  Settle(c, Rejected(DownloadError(this.key, this.bucket, e)))

\* the second catch block of S3Loader.load; a call on the web loader itself
\* has no catch
Surface(c, promise) ==
  IF c.target = "s3" /\ promise.status = "rejected"
  THEN Rejected(LoadError(c.filePath))
  ELSE promise

\* S3Loader.load from the answer of send to the await of transformToByteArray
S3Sent(c, this, answer) ==
  IF ~answer.ok THEN RetrievalFailed(Answered(c, answer), this, answer.error)
  ELSE IF answer.response.Body = Undefined
       THEN RetrievalFailed(Answered(c, answer), this, NoBodyError)
       ELSE [Answered(c, answer) EXCEPT !.pc = "body",
                                        !.s3Response = <<answer.response>>]

\* S3Loader.load from the answer of transformToByteArray to the await of
\* fetch inside unstructuredLoader.load()
S3BodyRead(c, this, answer) ==
  IF ~answer.ok THEN RetrievalFailed(Answered(c, answer), this, answer.error)
  ELSE LET made == Construct(this.UnstructuredLoader, c.filePath, answer.bytes,
                             S3Options(this))
           got == [Answered(c, answer) EXCEPT !.objectData = <<answer.bytes>>]
       IN IF made.status = "rejected"
          THEN Settle(got, Surface(c, made))
          ELSE [got EXCEPT !.pc = "fetch", !.loader = <<made.value>>,
                           !.posts = IssuePost(@, Request(made.value))]

\* UnstructuredWebLoader.load, called by the caller, up to the await of fetch
WebStart(c, this) ==
  [c EXCEPT !.pc = "fetch", !.target = "web", !.filePath = this.filePath,
            !.posts = IssuePost(@, Request(this))]

\* _partition from the answer of fetch to the await of text() or json()
Fetched(c, answer) ==
  IF ~answer.ok
  THEN Settle(Answered(c, answer), Surface(c, Rejected(answer.error)))
  ELSE [Answered(c, answer) EXCEPT !.pc = IF Ok(answer.status) THEN "json" ELSE "text",
                                   !.response = <<[status |-> answer.status]>>]

\* _partition and load from the body on, for the response the call waits on
BodyRead(c, this, response, answer) ==
  Settle(Answered(c, answer),
         Surface(c, IF ~Ok(response.status)
                    THEN Rejected(PartitionError(this.filePath, response.status,
                                                 Text(answer.body)))
                    ELSE Load(Elements(Json(answer.body)))))

ResponseOfFirst(cs, i) ==
  IF cs[1].response # <<>> THEN cs[1].response[1] ELSE cs[i].response[1]

\* the local `response` of call i
PendingResponse(cs, i) == cs[i].response[1]

\* the loader a call runs on: the one S3Loader.load made, or the web loader
This(c, web) == IF c.target = "s3" THEN c.loader[1] ELSE web

(* --------------------------- the environment -------------------------- *)

\* what the store holds under the key
Objects == {<<>>, <<37, 80>>}

\* failures of the store client
StoreErrors == {Error("NoSuchKey", "no such key")}

\* the answers of send: a failure, a response without Body, a response
\* whose Body streams an object
SendAnswers(objects) ==
  {[ok |-> FALSE, error |-> e] : e \in StoreErrors}
  \cup {[ok |-> TRUE, response |-> [Body |-> Undefined]]}
  \cup {[ok |-> TRUE, response |-> [Body |-> [t |-> "stream", object |-> o]]] :
          o \in objects}

\* the answers of transformToByteArray: the stream breaks, or it ends and
\* the bytes are the object
ByteArrayAnswers(stream) ==
  {[ok |-> FALSE, error |-> Error("Error", "aborted")],
   [ok |-> TRUE, bytes |-> ByteArray(stream)]}

\* the answers of fetch: a transport failure, or a response with a status
FetchAnswers(statuses) ==
  {[ok |-> FALSE, error |-> Error("TypeError", "fetch failed")]}
  \cup {[ok |-> TRUE, status |-> n] : n \in statuses}

\* the answers of text() and json(): the body
BodyAnswers(bodies) == {[ok |-> TRUE, body |-> b] : b \in bodies}

\* bodies that are no JSON text
Texts == {[text |-> ""], [text |-> "bad file"]}

\* entries of the array the service returns
Entries ==
  {Obj([type |-> Str("Title"), text |-> Str("Hello"), metadata |-> Obj([page |-> Num(1)])]),
   Obj([type |-> Str("Y"), text |-> Str("b"), metadata |-> Obj([category |-> Str("X")])]),
   Obj([text |-> Str("c")]),
   Obj([type |-> Str("Marker")]),
   Obj([type |-> Str("Table"), text |-> Num(5), metadata |-> Obj([page |-> Num(2)])]),
   Num(7),
   Null}

\* the sequences over S of length at most n
SeqsUpTo(S, n) == UNION {[1..k -> S] : k \in 0..n}

\* JSON documents that are no array
NonArrays == {Obj([foo |-> Str("bar")]), Null, Num(5), Str("ok"), Bool(FALSE)}

\* the bodies a 2xx response is drawn from, with arrays of at most n entries
JsonBodies(n) ==
  {[json |-> v] : v \in NonArrays} \cup {[json |-> Arr(a)] : a \in SeqsUpTo(Entries, n)}

\* the few bodies the concurrent calls are answered with
FewBodies ==
  {[json |-> Obj([foo |-> Str("bar")])],
   [json |-> Arr(<<Obj([type |-> Str("Title"), text |-> Str("Hello"),
                        metadata |-> Obj([page |-> Num(1)])]),
                   Obj([type |-> Str("Marker")])>>)],
   [json |-> Arr(<<Null>>)],
   [text |-> "bad file"]}

(* ------------------------------ actions ------------------------------- *)

\* a caller calls s3Loader.load()
S3LoaderLoad(i) ==
  /\ calls[i].pc = "idle"
  /\ calls' = [calls EXCEPT ![i] = S3Start(@, s3Loader)]
  /\ UNCHANGED <<s3Loader, webLoader, webOptions>>

\* the store answers the get-object command
SendSettles(i, objects) ==
  /\ calls[i].pc = "send"
  /\ \E answer \in SendAnswers(objects) :
       calls' = [calls EXCEPT ![i] = S3Sent(@, s3Loader, answer)]
  /\ UNCHANGED <<s3Loader, webLoader, webOptions>>

\* the body stream of the object ends or breaks
ByteArraySettles(i) ==
  /\ calls[i].pc = "body"
  /\ \E answer \in ByteArrayAnswers(calls[i].s3Response[1].Body) :
       calls' = [calls EXCEPT ![i] = S3BodyRead(@, s3Loader, answer)]
  /\ UNCHANGED <<s3Loader, webLoader, webOptions>>

\* a caller calls webLoader.load()
WebLoaderLoad(i) ==
  /\ calls[i].pc = "idle"
  /\ calls' = [calls EXCEPT ![i] = WebStart(@, webLoader)]
  /\ UNCHANGED <<s3Loader, webLoader, webOptions>>

\* the partitioning service answers the POST, or the transport fails
FetchSettles(i, statuses) ==
  /\ calls[i].pc = "fetch"
  /\ \E answer \in FetchAnswers(statuses) :
       calls' = [calls EXCEPT ![i] = Fetched(@, answer)]
  /\ UNCHANGED <<s3Loader, webLoader, webOptions>>

\* the body of the response has arrived: it is read as text when the
\* response is not ok, and parsed when it is
BodySettles(i, bodies) ==
  /\ calls[i].pc \in {"text", "json"}
  /\ \E answer \in BodyAnswers(bodies) :
       calls' = [calls EXCEPT ![i] =
                   BodyRead(@, This(@, webLoader), PendingResponse(calls, i), answer)]
  /\ UNCHANGED <<s3Loader, webLoader, webOptions>>

(* --------------------------- specifications --------------------------- *)

S3Loaders(keys, classes) ==
  {S3Loader("bkt", key, "http://u", "k1", class) : key \in keys, class \in classes}

\* the option objects a caller may give the web loader
Options(strategies, encodings, languages, flags, apiKeys) ==
  {[apiKey |-> k, apiUrl |-> u, strategy |-> s, encoding |-> e, ocrLanguages |-> l,
    coordinates |-> c, pdfInferTableStructure |-> p, xmlKeepTags |-> x] :
     k \in apiKeys, u \in {Undefined}, s \in strategies, e \in encodings,
     l \in languages, c \in flags, p \in flags, x \in flags}

Flags == {Undefined, Bool(TRUE), Bool(FALSE)}

LanguageLists == {Undefined} \cup {Arr(l) : l \in SeqsUpTo({"eng", "fra"}, MaxLangs)}

\* concurrent calls on one S3Loader and one web loader
Init ==
  /\ s3Loader \in S3Loaders({"d/f.pdf"}, {"UnstructuredWebLoader", "Stand-in"})
  /\ webOptions \in {NoOptions,
                     [NoOptions EXCEPT !.apiUrl = Str("http://p"), !.apiKey = Str("k2")]}
  /\ webLoader = UnstructuredWebLoader("w.txt", <<1>>, webOptions)
  /\ calls = [i \in 1..NCalls |-> NewCall]

Next ==
  \/ \E i \in DOMAIN calls : S3LoaderLoad(i)
  \/ \E i \in DOMAIN calls : SendSettles(i, Objects)
  \/ \E i \in DOMAIN calls : ByteArraySettles(i)
  \/ \E i \in DOMAIN calls : WebLoaderLoad(i)
  \/ \E i \in DOMAIN calls : FetchSettles(i, {200, 404, 500})
  \/ \E i \in DOMAIN calls : BodySettles(i, FewBodies)

Spec == Init /\ [][Next]_vars

\* one call on a web loader built from every combination of options
InitRequest ==
  /\ s3Loader \in S3Loaders({"d/f.pdf"}, {"UnstructuredWebLoader"})
  /\ webOptions \in Options({Undefined, Str("fast"), Str("")},
                            {Undefined, Str(""), Str("utf-8")},
                            LanguageLists, Flags, {Undefined, Str("k2")})
  /\ webLoader \in {UnstructuredWebLoader(f, <<37, 80>>, webOptions) :
                      f \in {"f.pdf", "d/e/f.pdf"}}
  /\ calls = [i \in {1} |-> NewCall]

NextRequest ==
  \/ \E i \in DOMAIN calls : WebLoaderLoad(i)
  \/ \E i \in DOMAIN calls : FetchSettles(i, {200})
  \/ \E i \in DOMAIN calls : BodySettles(i, {[json |-> Arr(<<>>)]})

SpecRequest == InitRequest /\ [][NextRequest]_vars

\* one call answered with every response
InitResponse ==
  /\ s3Loader \in S3Loaders({"d/f.pdf", "f.pdf"}, {"UnstructuredWebLoader"})
  /\ webOptions = NoOptions
  /\ webLoader \in {UnstructuredWebLoader(f, <<1>>, webOptions) : f \in {"w.txt", "d/w.txt"}}
  /\ calls = [i \in {1} |-> NewCall]

NextResponse ==
  \/ \E i \in DOMAIN calls : S3LoaderLoad(i)
  \/ \E i \in DOMAIN calls : SendSettles(i, Objects)
  \/ \E i \in DOMAIN calls : ByteArraySettles(i)
  \/ \E i \in DOMAIN calls : WebLoaderLoad(i)
  \/ \E i \in DOMAIN calls : FetchSettles(i, {200, 299, 300, 404, 500})
  \/ \E i \in DOMAIN calls : BodySettles(i, JsonBodies(MaxElems) \cup Texts)

SpecResponse == InitResponse /\ [][NextResponse]_vars

(* ------------------------- reading the claims ------------------------- *)

\* the error kinds of the specification, as the code's messages tell them apart
IsRetrievalError(e) == StartsWith(e.message, "Failed to download file ")

IsPartitioningStageError(e) ==
  /\ StartsWith(e.message, "Failed to load file ")
  /\ EndsWith(e.message, " using unstructured loader.")

IsPartitionRequestError(e) == StartsWith(e.message, "Failed to partition file ")

IsPartitionResponseShapeError(e) ==
  StartsWith(e.message, "Expected partitioning request to return an array, but got ")

Done(c) == c.pc = "done"

Last(c) == c.answers[Len(c.answers)]

\* the call ended in the retrieval stage: send failed, the response had no
\* Body, or the body stream broke
RetrievalFails(c) ==
  /\ c.target = "s3" /\ Done(c) /\ Len(c.answers) \in 1..2
  /\ \/ ~Last(c).ok
     \/ Len(c.answers) = 1 /\ Last(c).response.Body = Undefined

\* the failure the retrieval stage ended with
RetrievalCause(c) == IF ~Last(c).ok THEN Last(c).error ELSE NoBodyError

\* the call read the body of a partitioning response
BodyWasRead(c) == Done(c) /\ c.response # <<>>

Status(c) == c.response[1].status

Body(c) == Last(c).body

IsJson(body) == "json" \in DOMAIN body

IsArrayBody(body) == IsJson(body) /\ body.json.t = "array"

HasNull(body) == \E k \in 1..Len(body.json.a) : body.json.a[k] = Null

\* the transport failed the POST
TransportFails(c) ==
  /\ Done(c) /\ c.posts # <<>> /\ c.response = <<>> /\ ~Last(c).ok

\* retrieval succeeded and the partitioning stage failed: constructing the
\* loader, the transport, a status that is not 2xx, a body that is no JSON
\* array, or an array entry that cannot be read
PartitioningFails(c) ==
  /\ c.target = "s3" /\ Done(c) /\ c.objectData # <<>>
  /\ \/ c.loader = <<>>
     \/ TransportFails(c)
     \/ /\ BodyWasRead(c)
        /\ \/ ~Ok(Status(c))
           \/ ~IsArrayBody(Body(c))
           \/ HasNull(Body(c))

\* the entries of an array with a string text, in the array's order
Retained(a) == SelectSeq(a, LAMBDA el : el.t = "object" /\ "text" \in DOMAIN el.o
                                         /\ el.o.text.t = "string")

\* doc is the Output Record of element el: the text, the metadata unchanged,
\* and category set to the type
IsRecordOf(doc, el) ==
  LET md == IF "metadata" \in DOMAIN el.o THEN el.o.metadata.o ELSE <<>>
  IN /\ doc.pageContent = el.o.text.s
     /\ DOMAIN doc.metadata = DOMAIN md \cup {"category"}
     /\ doc.metadata["category"] = (IF "type" \in DOMAIN el.o THEN el.o.type ELSE Undefined)
     /\ \A k \in DOMAIN md \ {"category"} : doc.metadata[k] = md[k]

\* docs are the Output Records of the array a
AreRecordsOf(docs, a) ==
  /\ Len(docs) = Len(Retained(a))
  /\ \A k \in 1..Len(docs) : IsRecordOf(docs[k], Retained(a)[k])

(* -------------------------------- C1 ---------------------------------- *)

\* C1: a call of S3Loader.load whose retrieval stage fails is rejected with a
\* RetrievalError whose message names the key, the bucket and the message of
\* the cause, and it has issued no partitioning request; and a call that has
\* issued a partitioning request has read the whole object first, and the
\* request carries exactly those bytes.
C1_RetrievalBeforePartitioning ==
  \A i \in DOMAIN calls :
    LET c == calls[i] IN
    /\ RetrievalFails(c) =>
         /\ c.result.status = "rejected"
         /\ IsRetrievalError(c.result.reason)
         /\ Contains(c.result.reason.message, s3Loader.key)
         /\ Contains(c.result.reason.message, s3Loader.bucket)
         /\ Contains(c.result.reason.message, RetrievalCause(c).message)
         /\ c.posts = <<>>
    /\ (c.target = "s3" /\ c.posts # <<>>) =>
         /\ c.s3Response # <<>> /\ c.objectData = <<c.s3Response[1].Body.object>>
         /\ c.posts[1].body[1].blob = c.s3Response[1].Body.object

\* one call lost the body stream, another went on to partition
C1_Witness ==
  \E i, j \in DOMAIN calls :
    /\ RetrievalFails(calls[i]) /\ calls[i].s3Response # <<>>
    /\ calls[j].target = "s3" /\ calls[j].posts # <<>> /\ calls[j].objectData # <<<<>>>>

(* -------------------------------- C2 ---------------------------------- *)

\* C2: a call of S3Loader.load whose retrieval succeeds and whose partitioning
\* stage fails is rejected with a PartitioningStageError whose message names
\* the file and the stage, and that error is of another kind than, and never
\* equal to, the RetrievalError of a call whose retrieval failed; a call whose
\* two stages both succeed is fulfilled.
C2_PartitioningStageError ==
  \A i \in DOMAIN calls :
    LET c == calls[i] IN
    /\ PartitioningFails(c) =>
         /\ c.result.status = "rejected"
         /\ IsPartitioningStageError(c.result.reason)
         /\ ~IsRetrievalError(c.result.reason)
         /\ Contains(c.result.reason.message, c.filePath)
         /\ Contains(c.result.reason.message, "unstructured loader")
         /\ \A j \in DOMAIN calls :
              RetrievalFails(calls[j]) =>
                /\ calls[j].result.reason # c.result.reason
                /\ ~IsPartitioningStageError(calls[j].result.reason)
    /\ (c.target = "s3" /\ Done(c) /\ ~RetrievalFails(c) /\ ~PartitioningFails(c)) =>
         c.result.status = "fulfilled"

\* in one run, a call failed in retrieval and another in partitioning
C2_Witness ==
  \E i, j \in DOMAIN calls :
    /\ RetrievalFails(calls[i])
    /\ PartitioningFails(calls[j]) /\ BodyWasRead(calls[j]) /\ ~Ok(Status(calls[j]))

(* -------------------------------- C3 ---------------------------------- *)

\* C3: a started call of UnstructuredWebLoader.load has issued exactly one
\* POST, to the configured endpoint (the default one when none was
\* configured), whatever its outcome; a started call of
\* S3Loader.load has issued exactly one get-object request and at most one
\* POST, and exactly one once it has reached the partitioning request.
C3_ExactlyOneRequest ==
  \A i \in DOMAIN calls :
    LET c == calls[i] IN
    /\ c.target = "web" =>
         /\ Len(c.posts) = 1 /\ c.sends = 0
         /\ c.posts[1].method = "POST"
         /\ c.posts[1].url = (IF webOptions.apiUrl # Undefined THEN webOptions.apiUrl.s
                              ELSE "https://api.unstructured.io/general/v0/general")
    /\ c.target = "s3" =>
         /\ c.sends = 1 /\ Len(c.posts) <= 1
         /\ c.loader # <<>> => /\ Len(c.posts) = 1
                               /\ c.posts[1].method = "POST"
                               /\ c.posts[1].url = s3Loader.unstructuredAPIURL

\* a web call and an S3 call have both ended in a failed partitioning
C3_Witness ==
  \E i, j \in DOMAIN calls :
    /\ calls[i].target = "web" /\ Done(calls[i]) /\ calls[i].result.status = "rejected"
    /\ calls[j].target = "s3" /\ TransportFails(calls[j])

(* -------------------------------- C4 ---------------------------------- *)

\* the fields of a form with a name, in the form's order
FieldsNamed(form, name) == SelectSeq(form, LAMBDA f : f.name = name)

\* the values of the fields of a form with a name, in the form's order
ValuesNamed(form, name) ==
  [k \in 1..Len(FieldsNamed(form, name)) |-> FieldsNamed(form, name)[k].value]

Supplied(option) == option # Undefined

\* C4: the request of a partition call holds the file payload once; one
\* strategy field, the supplied strategy or "hi_res"; one ocr_languages field
\* per supplied language, in the supplied order; the encoding field only for
\* a supplied non-empty encoding; coordinates, pdf_infer_table_structure and
\* xml_keep_tags only for a flag that is true, with the value "true"; no
\* other field; and the credential header, "" when no credential was given.
C4_RequestFields ==
  \A i \in DOMAIN calls :
    calls[i].target = "web" =>
      LET request == calls[i].posts[1]
          form == request.body
          o == webOptions
      IN /\ Len(FieldsNamed(form, "files")) = 1
         /\ FieldsNamed(form, "files")[1].blob = webLoader.buffer
         /\ ValuesNamed(form, "strategy")
              = <<IF Supplied(o.strategy) THEN o.strategy.s ELSE "hi_res">>
         /\ ValuesNamed(form, "ocr_languages")
              = (IF Supplied(o.ocrLanguages) THEN o.ocrLanguages.a ELSE <<>>)
         /\ ValuesNamed(form, "encoding")
              = (IF Supplied(o.encoding) /\ o.encoding.s # "" THEN <<o.encoding.s>> ELSE <<>>)
         /\ ValuesNamed(form, "coordinates")
              = (IF o.coordinates = Bool(TRUE) THEN <<"true">> ELSE <<>>)
         /\ ValuesNamed(form, "pdf_infer_table_structure")
              = (IF o.pdfInferTableStructure = Bool(TRUE) THEN <<"true">> ELSE <<>>)
         /\ ValuesNamed(form, "xml_keep_tags")
              = (IF o.xmlKeepTags = Bool(TRUE) THEN <<"true">> ELSE <<>>)
         /\ \A k \in 1..Len(form) :
              form[k].name \in {"files", "strategy", "ocr_languages", "encoding",
                                "coordinates", "pdf_infer_table_structure", "xml_keep_tags"}
         /\ DOMAIN request.headers = {"UNSTRUCTURED-API-KEY"}
         /\ request.headers["UNSTRUCTURED-API-KEY"]
              = (IF Supplied(o.apiKey) THEN o.apiKey.s ELSE "")

\* the request of { strategy: "fast", ocrLanguages: ["eng", "fra"],
\* coordinates: true, xmlKeepTags: false } has been sent
C4_Witness ==
  /\ webOptions = [NoOptions EXCEPT !.strategy = Str("fast"),
                                    !.ocrLanguages = Arr(<<"eng", "fra">>),
                                    !.coordinates = Bool(TRUE),
                                    !.xmlKeepTags = Bool(FALSE)]
  /\ calls[1].posts # <<>>

(* -------------------------------- C5 ---------------------------------- *)

\* C5: a partition call answered 2xx with an array of elements (no entry is
\* null) is fulfilled with one Output Record per entry whose text is a string,
\* in the array's order, each with the text as content and the metadata
\* unchanged plus category set to the type, which replaces a category of the
\* metadata.
C5_RecordsInOrder ==
  \A i \in DOMAIN calls :
    LET c == calls[i] IN
    (BodyWasRead(c) /\ Ok(Status(c)) /\ IsArrayBody(Body(c)) /\ ~HasNull(Body(c))) =>
      /\ c.result.status = "fulfilled"
      /\ AreRecordsOf(c.result.value, Body(c).json.a)

\* metadata { category: "X" } with type "Y" came first, the element of page 1
\* second, and the records are Y's and then the page's
C5_Witness ==
  \E i \in DOMAIN calls :
    LET c == calls[i] IN
    /\ c.target = "web" /\ BodyWasRead(c) /\ Ok(Status(c)) /\ IsArrayBody(Body(c))
    /\ Len(Body(c).json.a) = 2
    /\ Body(c).json.a[1] = Obj([type |-> Str("Y"), text |-> Str("b"),
                                metadata |-> Obj([category |-> Str("X")])])
    /\ c.result.status = "fulfilled"
    /\ Len(c.result.value) = 2
    /\ c.result.value[1].metadata["category"] = Str("Y")
    /\ c.result.value[2] = [pageContent |-> "Hello",
                            metadata |-> [page |-> Num(1), category |-> Str("Title")]]

(* -------------------------------- C6 ---------------------------------- *)

\* C6: a partition call answered with a status that is not 2xx is rejected
\* with a PartitionRequestError whose message holds the file name, the status
\* code and the whole text of the response body.
C6_PartitionRequestError ==
  \A i \in DOMAIN calls :
    LET c == calls[i] IN
    (c.target = "web" /\ BodyWasRead(c) /\ ~Ok(Status(c))) =>
      /\ c.result.status = "rejected"
      /\ IsPartitionRequestError(c.result.reason)
      /\ Contains(c.result.reason.message, webLoader.filePath)
      /\ Contains(c.result.reason.message, " " \o NumToStr(Status(c)) \o " ")
      /\ EndsWith(c.result.reason.message, " " \o Text(Body(c)))

\* a 500 with the body "bad file"
C6_Witness ==
  \E i \in DOMAIN calls :
    LET c == calls[i] IN
    /\ c.target = "web" /\ BodyWasRead(c) /\ Status(c) = 500
    /\ Body(c) = [text |-> "bad file"]
    /\ c.result.status = "rejected"
    /\ Contains(c.result.reason.message, "500")
    /\ Contains(c.result.reason.message, "bad file")

(* -------------------------------- C7 ---------------------------------- *)

C8_EntriesNeverFail ==
  \A i \in DOMAIN calls :
    LET c == calls[i] IN
    (c.target = "web" /\ BodyWasRead(c) /\ Ok(Status(c)) /\ IsArrayBody(Body(c))) =>
      /\ c.result.status = "fulfilled"
      /\ AreRecordsOf(c.result.value, Body(c).json.a)

(* -------------------------------- C9 ---------------------------------- *)

\* the failures the store client and the transport raised in a call
Raised(c) == {c.answers[k].error : k \in {k \in 1..Len(c.answers) : ~c.answers[k].ok}}

\* C9: a call in which the store client or the transport raised a failure is
\* rejected, and the error it is rejected with is that failure or holds the
\* failure's message.
C9_FailureNotMasked ==
  \A i \in DOMAIN calls :
    LET c == calls[i] IN
    \A e \in Raised(c) :
      /\ Done(c) /\ c.result.status = "rejected"
      /\ \/ c.result.reason = e
         \/ Contains(c.result.reason.message, e.message)

(* -------------------------------- C10 --------------------------------- *)

\* a call of the same method, run alone up to its first await
Started(target) ==
  IF target = "s3" THEN S3Start(NewCall, s3Loader) ELSE WebStart(NewCall, webLoader)

\* the step a call run alone takes on an answer
Resumed(c, answer) ==
  CASE c.pc = "send" -> S3Sent(c, s3Loader, answer)
    [] c.pc = "body" -> S3BodyRead(c, s3Loader, answer)
    [] c.pc = "fetch" -> Fetched(c, answer)
    [] c.pc \in {"text", "json"} -> BodyRead(c, This(c, webLoader), c.response[1], answer)

RECURSIVE Replayed(_, _)
Replayed(c, answers) ==
  IF answers = <<>> THEN c ELSE Replayed(Resumed(c, Head(answers)), Tail(answers))

\* the frame of a call of target's method that runs alone and is given answers
Alone(target, answers) == Replayed(Started(target), answers)

\* C10: whatever the interleaving, every call is where a call of the same
\* method run alone and given the same answers would be (same requests, same
\* locals, same outcome); and no step changes a field of a loader or the
\* frame of more than one call.
C10_CallsAreIndependent ==
  /\ [](\A i \in DOMAIN calls :
          calls[i].target # "none" => calls[i] = Alone(calls[i].target, calls[i].answers))
  /\ [][/\ s3Loader' = s3Loader /\ webLoader' = webLoader
        /\ \A i, j \in DOMAIN calls :
             (calls'[i] # calls[i] /\ calls'[j] # calls[j]) => i = j]_vars

\* two calls wait for a body at once, one on a 2xx and one on an error status
C10_Witness ==
  \E i, j \in DOMAIN calls :
    /\ i < j
    /\ calls[i].pc = "text" /\ calls[j].pc = "json"

====
